---- MODULE Spec2Model ----
(***************************************************************************)
(* Authentication and credential-recovery core of lumina-backend:         *)
(* signUp, login, forgotPassword, resetPassword (auth.controller.ts),     *)
(* requireAuth (middleware/auth.ts) and the authenticated account         *)
(* operations updateMe, deleteMe, changePassword (user.controller.ts),    *)
(* over the User collection (models/User.ts).                             *)
(*                                                                         *)
(* Strings that the handlers test for truthiness are sequences: the empty *)
(* sequence is the falsy value (undefined or "").  Optional document      *)
(* fields are sets: {} is an absent field, {v} a field holding v.         *)
(* Time is in milliseconds, as Date.now() gives it.                       *)
(***************************************************************************)
EXTENDS Integers, Sequences, FiniteSets, TLC

VARIABLES
    users,      \* the User collection: document id -> document
    nextId,     \* ids are never reused: the next _id the store assigns
    clock,      \* Date.now()
    issued,     \* history: the reset tokens generated, in order, each with the
                \* account and time it was issued for and whether a reset has
                \* used it
    sessions,   \* the session tokens (JWTs) that clients hold
    last,       \* the last request handled and its response
    bound,      \* the budget of this run: how far each dimension is explored
    pending,    \* concurrent requests: the handlers that have loaded their
                \* document and not yet saved it
    comments    \* the Comment collection, in order of creation: the document,
                \* or Absent once it is deleted

vars == <<users, nextId, clock, issued, sessions, last, bound, pending, comments>>

(***************************************************************************)
(* Bounds of the model.  A run explores either MaxUsers accounts at one   *)
(* instant, or one account fewer over MaxTicks advances of the clock.     *)
(***************************************************************************)
MaxUsers == 2
MaxTokens == 2
MaxTicks == 2
MaxSessions == 1
MaxPending == 2
MaxDays == 3
MaxLen == 8
MaxVersion == 3
MaxComments == 2

Budgets ==
    { [users |-> MaxUsers, tokens |-> MaxTokens, ticks |-> 0, sessions |-> MaxSessions],
      [users |-> MaxUsers - 1, tokens |-> MaxTokens, ticks |-> MaxTicks,
       sessions |-> MaxSessions] }

(***************************************************************************)
(* Values.  A request field is Absent (undefined) or Some(v).             *)
(***************************************************************************)
Absent == {}
Some(v) == {v}
Falsy(field) == field = Absent \/ field = Some(<<>>)
Value(field) == CHOOSE v \in field : TRUE

\* a JSON value that is no string (a number, say), named as the characters are
NotAString == <<"number">>
typeof(v) == IF v = NotAString THEN "number" ELSE "string"

Emails == {<<"a@x.com">>, <<"b@x.com">>}

PwAbc == <<"A", "b", "c", "1", "2", "3", "4", "5", "!">>
PwXyz == <<"X", "y", "z", "9", "8", "7", "6", "5", "!">>
PwCommon == <<"1", "2", "3", "4", "5", "6", "7", "8">>
Passwords == {PwAbc, PwXyz, PwCommon}

FirstNames == {<<"A">>}
LastNames == {<<"B">>}
MinAge == 18
Ages == {MinAge - 1, MinAge + 2}

Salts == {1}
Tokens == {<<n>> : n \in 1..MaxTokens}

Minute == 60 * 1000
TokenTTL == 60 * 60 * 1000
JwtTTL == 7 * 24 * 60 * 60 * 1000
TickStep == 30 * Minute
DayStep == 84 * 60 * Minute

(***************************************************************************)
(* validatePasswordStrength: null (here "") or the message of the first   *)
(* rule the password breaks.  A password is the sequence of its           *)
(* characters; a character that TLA+ cannot write in a string is named.   *)
(***************************************************************************)
UpperCase == <<"A", "B", "C", "D", "E", "F", "G", "H", "I", "J", "K", "L", "M",
               "N", "O", "P", "Q", "R", "S", "T", "U", "V", "W", "X", "Y", "Z">>
LowerCase == <<"a", "b", "c", "d", "e", "f", "g", "h", "i", "j", "k", "l", "m",
               "n", "o", "p", "q", "r", "s", "t", "u", "v", "w", "x", "y", "z">>
Digits == {"0", "1", "2", "3", "4", "5", "6", "7", "8", "9"}
Symbols == {"!", "@", "#", "$", "%", "^", "&", "*", "(", ")", "_", "+", "-", "=",
            "{", "}", "[", "]", "|", ";", ":", "dquote", "<", ">", ",", ".", "?", "/",
            "~", "backtick"}
LineTerminators == {"\n", "\r"}

toLowerCase(s) ==
    [i \in 1..Len(s) |->
        IF \E k \in 1..Len(UpperCase) : UpperCase[k] = s[i]
        THEN LowerCase[CHOOSE k \in 1..Len(UpperCase) : UpperCase[k] = s[i]]
        ELSE s[i]]

weakPasswords ==
    { <<"1", "2", "3", "4", "5", "6">>,
      <<"p", "a", "s", "s", "w", "o", "r", "d">>,
      <<"q", "w", "e", "r", "t", "y">>,
      <<"a", "b", "c", "1", "2", "3">>,
      <<"1", "2", "3", "4", "5", "6", "7", "8">>,
      <<"1", "2", "3", "4", "5", "6", "7", "8", "9">>,
      <<"1", "1", "1", "1", "1", "1">>,
      <<"p", "a", "s", "s", "w", "o", "r", "d", "1">>,
      <<"1", "2", "3", "1", "2", "3">>,
      <<"c", "o", "n", "t", "r", "a", "s", "e", "enye", "a">> }

\* /^(?=.*[A-Z])(?=.*\d)(?=.*[symbols]).+$/ : "." stops at a line terminator
strongRegex(s) ==
    /\ Len(s) > 0
    /\ \A i \in 1..Len(s) : s[i] \notin LineTerminators
    /\ \E i \in 1..Len(s) : \E k \in 1..Len(UpperCase) : UpperCase[k] = s[i]
    /\ \E i \in 1..Len(s) : s[i] \in Digits
    /\ \E i \in 1..Len(s) : s[i] \in Symbols

MinLength == 8
MsgRequired == "Password is required."
MsgTooShort == "La contrasena debe tener al menos 8 caracteres."
MsgTooCommon == "La contrasena es demasiado comun. Elige otra."
MsgTooWeak == "La contrasena debe incluir al menos una mayuscula, un numero y un simbolo."

\* as validatePasswordStrength, looking the password up in the list of common
\* passwords before measuring it
validatePasswordStrengthCommonFirst(password) ==
    IF Falsy(password) \/ typeof(Value(password)) # "string" THEN MsgRequired
    ELSE IF toLowerCase(Value(password)) \in weakPasswords THEN MsgTooCommon
    ELSE IF Len(Value(password)) < MinLength THEN MsgTooShort
    ELSE IF ~strongRegex(Value(password)) THEN MsgTooWeak
    ELSE ""

validatePasswordStrength(password) ==
    IF Falsy(password) \/ typeof(Value(password)) # "string" THEN MsgRequired
    ELSE IF Len(Value(password)) < MinLength THEN MsgTooShort
    ELSE IF toLowerCase(Value(password)) \in weakPasswords THEN MsgTooCommon
    ELSE IF ~strongRegex(Value(password)) THEN MsgTooWeak
    ELSE ""

(***************************************************************************)
(* bcryptjs: a salted one-way hash; compare re-hashes with the digest   *)
(* salt.  crypto: SHA-256, taken to be collision free.                    *)
(***************************************************************************)
bcryptHash(password, salt) == [bcrypt |-> password, salt |-> salt]
\* as bcryptCompare, refusing a password the policy rejects
bcryptCompareUnderPolicy(password, digest) ==
    /\ digest = bcryptHash(password, digest.salt)
    /\ validatePasswordStrength(Some(password)) = ""

bcryptCompare(password, digest) == digest = bcryptHash(password, digest.salt)
\* compare rejects with "Illegal arguments" unless typeof s === "string"
bcryptIllegalArguments(field) == field = Absent \/ typeof(Value(field)) # "string"
sha256(token) == [sha256 |-> token]

(***************************************************************************)
(* jsonwebtoken: sign({ id }, secret, { expiresIn: "7d" }) and verify.    *)
(***************************************************************************)
Secret == "JWT_SECRET"
jwtSign(id, secret, now) ==
    [id |-> id, iat |-> now, exp |-> now + JwtTTL, sig |-> secret]

\* as jwtVerify, with ignoreExpiration
jwtVerifyIgnoreExpiration(token, secret, now) == token.sig = secret

jwtVerify(token, secret, now) == token.sig = secret /\ now < token.exp

(***************************************************************************)
(* The User collection.                                                    *)
(***************************************************************************)
NoUsers == [id \in {} |-> {}]

create(firstName, lastName, age, email, passwordHash) ==
    [ firstName |-> firstName, lastName |-> lastName, age |-> age,
      email |-> email, passwordHash |-> passwordHash,
      passwordResetTokenHash |-> Absent, passwordResetTokenExp |-> Absent,
      resetToken |-> Absent, resetTokenExp |-> Absent,
      favorites |-> <<>>, __v |-> 0 ]

Put(id, doc) == [i \in DOMAIN users \cup {id} |-> IF i = id THEN doc ELSE users[i]]
Remove(id) == [i \in DOMAIN users \ {id} |-> users[i]]

\* as uniqueEmail, without the index
uniqueEmailUnindexed(id, email) == TRUE

\* the unique index on email: whether it admits this email for document id
uniqueEmail(id, email) == \A other \in DOMAIN users \ {id} : users[other].email # email

\* as findOneByEmail, finding nothing
findOneByEmailNothing(email) == {}

\* User.findOne({ email })
findOneByEmail(email) == {id \in DOMAIN users : Some(users[id].email) = email}

\* as findOneByResetToken, without the hash in the filter
findOneByResetTokenAnyHash(tokenHash, now) ==
    {id \in DOMAIN users : \E exp \in users[id].passwordResetTokenExp : exp > now}

\* as findOneByResetToken, with $gte for $gt
findOneByResetTokenGte(tokenHash, now) ==
    {id \in DOMAIN users :
        /\ users[id].passwordResetTokenHash = Some(tokenHash)
        /\ \E exp \in users[id].passwordResetTokenExp : exp >= now}

\* User.findOne({ passwordResetTokenHash, passwordResetTokenExp: { $gt: now } })
findOneByResetToken(tokenHash, now) ==
    {id \in DOMAIN users :
        /\ users[id].passwordResetTokenHash = Some(tokenHash)
        /\ \E exp \in users[id].passwordResetTokenExp : exp > now}

\* as issueToken, leaving a pending token in place
issueTokenKeepsPending(doc, tokenHash, exp) ==
    IF doc.passwordResetTokenHash # Absent THEN doc
    ELSE [doc EXCEPT !.passwordResetTokenHash = Some(tokenHash),
                     !.passwordResetTokenExp = Some(exp)]

\* as issueToken, leaving the legacy fields as they are
issueTokenKeepsLegacy(doc, tokenHash, exp) ==
    [doc EXCEPT !.passwordResetTokenHash = Some(tokenHash),
                !.passwordResetTokenExp = Some(exp)]

\* forgotPassword: the assignments to the loaded document before user.save()
issueToken(doc, tokenHash, exp) ==
    [doc EXCEPT !.passwordResetTokenHash = Some(tokenHash),
                !.passwordResetTokenExp = Some(exp),
                !.resetToken = Absent,
                !.resetTokenExp = Absent]

\* as consumeToken, leaving the expiry in place
consumeTokenKeepsExp(doc, passwordHash) ==
    [doc EXCEPT !.passwordHash = passwordHash, !.passwordResetTokenHash = Absent]

\* as consumeToken, without the new password
consumeTokenKeepsPassword(doc, passwordHash) ==
    [doc EXCEPT !.passwordResetTokenHash = Absent, !.passwordResetTokenExp = Absent,
                !.resetToken = Absent, !.resetTokenExp = Absent]

\* as consumeToken, without clearing the token fields
consumeTokenKeepsToken(doc, passwordHash) == [doc EXCEPT !.passwordHash = passwordHash]

\* resetPassword: the assignments to the loaded document before user.save()
consumeToken(doc, passwordHash) ==
    [doc EXCEPT !.passwordHash = passwordHash,
                !.passwordResetTokenHash = Absent,
                !.passwordResetTokenExp = Absent,
                !.resetToken = Absent,
                !.resetTokenExp = Absent]

\* as setPassword, assigning nothing
setPasswordKeeps(doc, passwordHash) == doc

\* changePassword: the assignment to the loaded document before user.save()
setPassword(doc, passwordHash) == [doc EXCEPT !.passwordHash = passwordHash]

\* as resetPasswordBody, without the comparison of the two passwords
resetPasswordBodyUncompared(token, password, confirmPassword) ==
    IF Falsy(token) \/ Falsy(password) \/ Falsy(confirmPassword) THEN "Missing fields"
    ELSE ""

\* resetPassword: the checks of the request body, "" when it passes
resetPasswordBody(token, password, confirmPassword) ==
    IF Falsy(token) \/ Falsy(password) \/ Falsy(confirmPassword) THEN "Missing fields"
    ELSE IF password # confirmPassword THEN "Passwords do not match"
    ELSE ""

(***************************************************************************)
(* What a handler answers.  status 0: the handler's promise rejected and  *)
(* it wrote no response.                                                  *)
(***************************************************************************)
Response(op, status, message) ==
    [ op |-> op, status |-> status, message |-> message,
      token |-> Absent, userId |-> Absent, jwt |-> Absent, mail |-> "none" ]

Unhandled(op, error) == Response(op, 0, error)

Neutral == "If the email exists, a reset was sent"

\* as forgotPasswordUnknown, telling the caller
forgotPasswordUnknownTold == Response("forgotPassword", 404, "User not found")

\* forgotPassword: the answer when no document has the email
forgotPasswordUnknown == Response("forgotPassword", 200, Neutral)

\* as forgotPasswordUndelivered, answering as if the mail had left
forgotPasswordUndeliveredNeutral ==
    [Response("forgotPassword", 200, Neutral) EXCEPT !.mail = "failed"]

\* forgotPassword: the answer when sendMail throws
forgotPasswordUndelivered ==
    [Response("forgotPassword", 502, "Email service error") EXCEPT !.mail = "failed"]

IssuedTokens == {issued[i].token : i \in 1..Len(issued)}

\* crypto.randomBytes(32).toString("hex"): a value no earlier call returned.
\* Tokens are named in the order they are generated.
randomBytes == {t \in Tokens : t = <<Len(issued) + 1>> /\ Len(issued) < bound.tokens}

Init ==
    /\ users = NoUsers
    /\ nextId = 1
    /\ clock = 0
    /\ issued = <<>>
    /\ sessions = {}
    /\ last = Response("start", 0, "")
    /\ bound \in Budgets
    /\ pending = {}
    /\ comments = <<>>

Tick ==
    /\ clock < bound.ticks * TickStep
    /\ clock' = clock + TickStep
    /\ last' = Response("tick", 0, "")
    /\ UNCHANGED <<users, nextId, issued, sessions, bound, comments, pending>>

(***************************************************************************)
(* controllers/auth.controller.ts                                          *)
(***************************************************************************)
signUp(firstName, lastName, age, email, password, salt) ==
    /\ UNCHANGED <<clock, issued, sessions, bound, comments, pending>>
    /\ IF \/ Falsy(firstName) \/ Falsy(lastName) \/ age = Absent \/ age = Some(0)
          \/ Falsy(email) \/ Falsy(password)
       THEN /\ last' = Response("signUp", 400, "Missing fields")
            /\ UNCHANGED <<users, nextId>>
       ELSE IF Value(age) < MinAge
       THEN /\ last' = Response("signUp", 400,
                                "You must be at least 18 years old to register.")
            /\ UNCHANGED <<users, nextId>>
       ELSE IF findOneByEmail(email) # {}
       THEN /\ last' = Response("signUp", 409, "Email already registered")
            /\ UNCHANGED <<users, nextId>>
       ELSE /\ nextId <= bound.users
            /\ users' = Put(nextId, create(Value(firstName), Value(lastName), Value(age),
                                           Value(email),
                                           bcryptHash(Value(password), salt)))
            /\ nextId' = nextId + 1
            /\ last' = [Response("signUp", 201, "") EXCEPT !.userId = Some(nextId)]

login(email, password) ==
    /\ UNCHANGED <<users, nextId, clock, issued, bound, comments, pending>>
    /\ IF findOneByEmail(email) = {}
       THEN /\ last' = Response("login", 401, "Invalid credentials")
            /\ UNCHANGED sessions
       ELSE \E id \in findOneByEmail(email) :
            IF bcryptIllegalArguments(password)
            THEN /\ last' = Unhandled("login", "Illegal arguments: undefined, string")
                 /\ UNCHANGED sessions
            ELSE IF ~bcryptCompare(Value(password), users[id].passwordHash)
            THEN /\ last' = Response("login", 401, "Invalid credentials")
                 /\ UNCHANGED sessions
            ELSE LET token == jwtSign(id, Secret, clock) IN
                 /\ last' = [Response("login", 200, "")
                                EXCEPT !.jwt = Some(token), !.userId = Some(id)]
                 /\ sessions' = IF Cardinality(sessions) < bound.sessions
                                THEN sessions \cup {token} ELSE sessions

forgotPassword(email, token, mailOk) ==
    /\ UNCHANGED <<nextId, clock, sessions, bound, comments, pending>>
    /\ IF Falsy(email)
       THEN /\ last' = Response("forgotPassword", 400, "Email required")
            /\ UNCHANGED <<users, issued>>
       ELSE IF findOneByEmail(email) = {}
       THEN /\ last' = forgotPasswordUnknown
            /\ UNCHANGED <<users, issued>>
       ELSE \E id \in findOneByEmail(email) :
            /\ token \notin IssuedTokens
            /\ users' = Put(id, issueToken(users[id], sha256(token), clock + TokenTTL))
            /\ issued' = Append(issued, [token |-> token, userId |-> id, at |-> clock,
                                         used |-> FALSE])
            /\ last' = IF mailOk
                       THEN [Response("forgotPassword", 200, Neutral)
                                EXCEPT !.mail = "sent"]
                       ELSE forgotPasswordUndelivered

resetPassword(token, password, confirmPassword, salt) ==
    /\ UNCHANGED <<nextId, clock, sessions, bound, comments, pending>>
    /\ IF resetPasswordBody(token, password, confirmPassword) # ""
       THEN /\ last' = [Response("resetPassword", 400,
                                 resetPasswordBody(token, password, confirmPassword))
                            EXCEPT !.token = token]
            /\ UNCHANGED <<users, issued>>
       ELSE IF findOneByResetToken(sha256(Value(token)), clock) = {}
       THEN /\ last' = [Response("resetPassword", 400, "Invalid or expired token")
                            EXCEPT !.token = token]
            /\ UNCHANGED <<users, issued>>
       ELSE \E id \in findOneByResetToken(sha256(Value(token)), clock) :
            /\ users' = Put(id, consumeToken(users[id], bcryptHash(Value(password), salt)))
            /\ issued' = [i \in 1..Len(issued) |->
                            IF issued[i].token = Value(token)
                            THEN [issued[i] EXCEPT !.used = TRUE] ELSE issued[i]]
            /\ last' = [Response("resetPassword", 200, "Password updated")
                            EXCEPT !.token = token, !.userId = Some(id)]

(***************************************************************************)
(* middleware/auth.ts: "" when the request passes the gate, or the        *)
(* message of the 401 it answers.                                         *)
(***************************************************************************)
requireAuth(header) ==
    IF header = Absent THEN "Missing Authorization header"
    ELSE IF ~jwtVerify(Value(header), Secret, clock) THEN "Invalid token"
    ELSE ""

Unauthorized(op, header) ==
    /\ requireAuth(header) # ""
    /\ last' = [Response(op, 401, requireAuth(header)) EXCEPT !.jwt = header]
    /\ UNCHANGED <<users, nextId, clock, issued, sessions, bound, comments, pending>>

(***************************************************************************)
(* controllers/user.controller.ts, behind requireAuth (routes/users.ts)   *)
(***************************************************************************)
me(userId) ==
    /\ UNCHANGED <<users, nextId, clock, issued, sessions, bound, comments, pending>>
    /\ last' = IF userId \notin DOMAIN users
               THEN Response("me", 404, "User not found")
               ELSE [Response("me", 200, "") EXCEPT !.userId = Some(userId)]

updateMe(userId, firstName, lastName, age, email, password, salt) ==
    /\ UNCHANGED <<nextId, clock, issued, sessions, bound, comments, pending>>
    /\ IF userId \notin DOMAIN users
       THEN /\ last' = Response("updateMe", 200, "null")
            /\ UNCHANGED users
       ELSE IF email # Absent /\ ~uniqueEmail(userId, Value(email))
       THEN /\ last' = Unhandled("updateMe", "E11000 duplicate key error")
            /\ UNCHANGED users
       ELSE /\ users' = Put(userId, [users[userId] EXCEPT
                !.firstName = IF firstName = Absent THEN @ ELSE Value(firstName),
                !.lastName = IF lastName = Absent THEN @ ELSE Value(lastName),
                !.age = IF age = Absent THEN @ ELSE Value(age),
                !.email = IF email = Absent THEN @ ELSE Value(email),
                !.passwordHash = IF Falsy(password) THEN @
                                 ELSE bcryptHash(Value(password), salt)])
            /\ last' = [Response("updateMe", 200, "") EXCEPT !.userId = Some(userId)]

deleteMe(userId) ==
    /\ UNCHANGED <<nextId, clock, issued, sessions, bound, comments, pending>>
    /\ users' = Remove(userId)
    /\ last' = Response("deleteMe", 200, "Account deleted")

changePassword(userId, currentPassword, newPassword, confirmPassword, salt) ==
    /\ UNCHANGED <<nextId, clock, issued, sessions, bound, comments, pending>>
    /\ IF Falsy(currentPassword) \/ Falsy(newPassword) \/ Falsy(confirmPassword)
       THEN /\ last' = Response("changePassword", 400, "Missing fields")
            /\ UNCHANGED users
       ELSE IF newPassword # confirmPassword
       THEN /\ last' = Response("changePassword", 400, "Passwords do not match")
            /\ UNCHANGED users
       ELSE IF validatePasswordStrength(newPassword) # ""
       THEN /\ last' = Response("changePassword", 400, validatePasswordStrength(newPassword))
            /\ UNCHANGED users
       ELSE IF userId \notin DOMAIN users
       THEN /\ last' = Response("changePassword", 404, "User not found")
            /\ UNCHANGED users
       ELSE IF bcryptIllegalArguments(currentPassword)
       THEN /\ last' = Unhandled("changePassword", "Illegal arguments: number, string")
            /\ UNCHANGED users
       ELSE IF ~bcryptCompare(Value(currentPassword), users[userId].passwordHash)
       THEN /\ last' = Response("changePassword", 400, "Current password incorrect")
            /\ UNCHANGED users
       ELSE /\ users' = Put(userId, setPassword(users[userId],
                                                 bcryptHash(Value(newPassword), salt)))
            /\ last' = [Response("changePassword", 200, "Password changed")
                            EXCEPT !.userId = Some(userId)]

(***************************************************************************)
(* routes/users.ts: each route runs requireAuth, then its controller with *)
(* req.userId = payload.id.                                               *)
(***************************************************************************)
getMe(header) ==
    \/ Unauthorized("me", header)
    \/ requireAuth(header) = "" /\ me(Value(header).id)

putMe(header, firstName, lastName, age, email, password, salt) ==
    \/ Unauthorized("updateMe", header)
    \/ /\ requireAuth(header) = ""
       /\ updateMe(Value(header).id, firstName, lastName, age, email, password, salt)

deleteMeRoute(header) ==
    \/ Unauthorized("deleteMe", header)
    \/ requireAuth(header) = "" /\ deleteMe(Value(header).id)

putPassword(header, currentPassword, newPassword, confirmPassword, salt) ==
    \/ Unauthorized("changePassword", header)
    \/ /\ requireAuth(header) = ""
       /\ changePassword(Value(header).id, currentPassword, newPassword,
                         confirmPassword, salt)

(***************************************************************************)
(* The requests clients send.                                              *)
(***************************************************************************)
Opt(S) == {Absent} \cup {Some(v) : v \in S}
Forged == [id |-> 1, iat |-> clock, exp |-> clock + JwtTTL, sig |-> "forged"]
Headers == Opt(sessions \cup {Forged})

\* a body with one of its fields left out
Without(body) == {[body EXCEPT ![f] = Absent] : f \in DOMAIN body}

\* sign-up bodies: every email with every password; one under age; one with
\* each field left out in turn
SignUpBodies ==
    LET Adult == [ firstName : {Some(n) : n \in FirstNames},
                   lastName : {Some(n) : n \in LastNames},
                   age : {Some(MinAge + 2)},
                   email : {Some(e) : e \in Emails},
                   password : {Some(p) : p \in Passwords} ]
        One == CHOOSE b \in Adult : b.email = Some(<<"a@x.com">>) /\ b.password = Some(PwAbc)
    IN  Adult \cup {[One EXCEPT !.age = Some(a)] : a \in Ages} \cup Without(One)

\* reset bodies: matching and differing passwords, and each field left out
ResetBodies ==
    LET Full == UNION {[ token : {Some(t) : t \in Tokens}, password : {Some(p)},
                         confirmPassword : {Some(p), Some(PwAbc)} ] :
                            p \in {PwXyz, PwCommon}}
        One == [token |-> Some(<<1>>), password |-> Some(PwXyz),
                confirmPassword |-> Some(PwXyz)]
    IN  Full \cup Without(One)

\* an authenticated request: a body behind a session a client holds, or no body
\* behind a header the gate refuses
Authenticated(Bodies, empty) ==
    {<<Some(j), b>> : j \in sessions, b \in Bodies}
        \cup {<<h, empty>> : h \in {Absent, Some(Forged)}}

\* profile updates: a new email, or a new password
UpdateBodies ==
    [ firstName : {Some(<<"A">>)}, lastName : {Absent}, age : {Absent},
      email : {Some(e) : e \in Emails}, password : {Absent} ]
    \cup [ firstName : {Absent}, lastName : {Absent}, age : {Absent},
           email : {Absent}, password : {Some(PwXyz), Some(PwCommon)} ]

\* password changes: matching and differing passwords, each field left out,
\* and a current password that is no string
PasswordBodies ==
    LET Full == UNION {[ currentPassword : {Some(PwAbc), Some(PwXyz)},
                         newPassword : {Some(p)},
                         confirmPassword : {Some(p), Some(PwAbc)} ] :
                            p \in {PwXyz, PwCommon}}
        One == [currentPassword |-> Some(PwAbc), newPassword |-> Some(PwXyz),
                confirmPassword |-> Some(PwXyz)]
    IN  Full \cup Without(One) \cup {[One EXCEPT !.currentPassword = Some(NotAString)]}

NoBody ==
    [ firstName |-> Absent, lastName |-> Absent, age |-> Absent, email |-> Absent,
      password |-> Absent, currentPassword |-> Absent, newPassword |-> Absent,
      confirmPassword |-> Absent ]

Next ==
    \/ Tick
    \/ \E body \in SignUpBodies, salt \in Salts :
          signUp(body.firstName, body.lastName, body.age, body.email, body.password, salt)
    \/ \E email \in Opt(Emails) \ {Absent}, password \in Opt(Passwords) :
          login(email, password)
    \/ \E email \in Opt(Emails), token \in randomBytes, mailOk \in BOOLEAN :
          forgotPassword(email, token, mailOk)
    \/ \E body \in ResetBodies, salt \in Salts :
          resetPassword(body.token, body.password, body.confirmPassword, salt)
    \/ \E header \in Headers : getMe(header)
    \/ \E req \in Authenticated(UpdateBodies, NoBody), salt \in Salts :
          putMe(req[1], req[2].firstName, req[2].lastName, req[2].age, req[2].email,
                req[2].password, salt)
    \/ \E header \in Headers : deleteMeRoute(header)
    \/ \E req \in Authenticated(PasswordBodies, NoBody), salt \in Salts :
          putPassword(req[1], req[2].currentPassword, req[2].newPassword,
                      req[2].confirmPassword, salt)

Spec == Init /\ [][Next]_vars

(***************************************************************************)
(* Concurrent requests.  A handler that loads a document, assigns to it   *)
(* and calls user.save() awaits the store twice; other requests run       *)
(* between its find and its save.  save() sends one update that writes    *)
(* the paths the handler assigned and no other; on a document that has    *)
(* been deleted meanwhile it rejects (DocumentNotFoundError), which no    *)
(* handler catches.  The handlers that answer without saving, and those   *)
(* that make one store call (updateMe, deleteMe), are single steps.       *)
(***************************************************************************)
TokenPaths ==
    {"passwordResetTokenHash", "passwordResetTokenExp", "resetToken", "resetTokenExp"}

\* as Assigned, forgotPassword leaving the expiry out of its update
AssignedWithoutExp(op) ==
    CASE op = "forgotPassword" -> TokenPaths \ {"passwordResetTokenExp"}
      [] op = "resetPassword" -> {"passwordHash"} \cup TokenPaths
      [] op = "changePassword" -> {"passwordHash"}

\* the paths each handler assigns before user.save()
Assigned(op) ==
    CASE op = "forgotPassword" -> TokenPaths
      [] op = "resetPassword" -> {"passwordHash"} \cup TokenPaths
      [] op = "changePassword" -> {"passwordHash"}

\* the stored document after a save() of doc by the handler op
Written(stored, doc, op) ==
    [f \in DOMAIN stored |-> IF f \in Assigned(op) THEN doc[f] ELSE stored[f]]

InFlight(op, id, doc, token) == [op |-> op, id |-> id, doc |-> doc, token |-> token]

Begin(request) ==
    /\ Cardinality(pending) < MaxPending
    /\ pending' = pending \cup {request}
    /\ UNCHANGED <<users, nextId, clock, sessions, last, bound, comments>>

\* forgotPassword up to its user.save()
forgotPasswordFind(email, token) ==
    /\ ~Falsy(email)
    /\ token \notin IssuedTokens
    /\ \E id \in findOneByEmail(email) :
        /\ Begin(InFlight("forgotPassword", id,
                          issueToken(users[id], sha256(token), clock + TokenTTL),
                          Some(token)))
        /\ issued' = Append(issued, [token |-> token, userId |-> id, at |-> clock,
                                     used |-> FALSE])

\* resetPassword up to its user.save()
resetPasswordFind(token, password, confirmPassword, salt) ==
    /\ resetPasswordBody(token, password, confirmPassword) = ""
    /\ \E id \in findOneByResetToken(sha256(Value(token)), clock) :
        Begin(InFlight("resetPassword", id,
                       consumeToken(users[id], bcryptHash(Value(password), salt)),
                       token))
    /\ UNCHANGED issued

\* changePassword, behind requireAuth, up to its user.save()
changePasswordFind(header, currentPassword, newPassword, confirmPassword, salt) ==
    /\ requireAuth(header) = ""
    /\ ~(Falsy(currentPassword) \/ Falsy(newPassword) \/ Falsy(confirmPassword))
    /\ newPassword = confirmPassword
    /\ validatePasswordStrength(newPassword) = ""
    /\ Value(header).id \in DOMAIN users
    /\ bcryptCompare(Value(currentPassword), users[Value(header).id].passwordHash)
    /\ Begin(InFlight("changePassword", Value(header).id,
                      setPassword(users[Value(header).id],
                                  bcryptHash(Value(newPassword), salt)),
                      Absent))
    /\ UNCHANGED issued

\* user.save() of a handler in flight, and the rest of the handler
save(request, mailOk) ==
    /\ request \in pending
    /\ pending' = pending \ {request}
    /\ UNCHANGED <<nextId, clock, sessions, bound, comments>>
    /\ IF request.id \notin DOMAIN users
       THEN /\ last' = Unhandled(request.op, "DocumentNotFoundError")
            /\ UNCHANGED <<users, issued>>
       ELSE /\ users' = Put(request.id, Written(users[request.id], request.doc, request.op))
            /\ CASE request.op = "forgotPassword" ->
                    /\ last' = IF mailOk
                               THEN [Response("forgotPassword", 200, Neutral)
                                        EXCEPT !.mail = "sent"]
                               ELSE forgotPasswordUndelivered
                    /\ UNCHANGED issued
                 [] request.op = "resetPassword" ->
                    /\ last' = [Response("resetPassword", 200, "Password updated")
                                    EXCEPT !.token = request.token,
                                           !.userId = Some(request.id)]
                    /\ issued' = [i \in 1..Len(issued) |->
                                    IF issued[i].token = Value(request.token)
                                    THEN [issued[i] EXCEPT !.used = TRUE] ELSE issued[i]]
                 [] request.op = "changePassword" ->
                    /\ last' = [Response("changePassword", 200, "Password changed")
                                    EXCEPT !.userId = Some(request.id)]
                    /\ UNCHANGED issued

InitConc == Init /\ bound.ticks = MaxTicks

NextConc ==
    \/ Tick
    \/ \E salt \in Salts :
          signUp(Some(<<"A">>), Some(<<"B">>), Some(MinAge + 2), Some(<<"a@x.com">>),
                 Some(PwAbc), salt)
    \/ login(Some(<<"a@x.com">>), Some(PwAbc))
    \/ \E token \in randomBytes : forgotPasswordFind(Some(<<"a@x.com">>), token)
    \/ \E token \in IssuedTokens, password \in {PwAbc, PwXyz}, salt \in Salts :
          resetPasswordFind(Some(token), Some(password), Some(password), salt)
    \/ \E j \in sessions, current \in {PwAbc, PwXyz}, salt \in Salts :
          changePasswordFind(Some(j), Some(current), Some(PwAbc), Some(PwAbc), salt)
    \/ \E request \in pending, mailOk \in BOOLEAN : save(request, mailOk)
    \/ \E j \in sessions, salt \in Salts :
          putMe(Some(j), Absent, Absent, Absent, Absent, Some(PwXyz), salt)
    \/ \E j \in sessions : deleteMeRoute(Some(j))

SpecConc == InitConc /\ [][NextConc]_vars

(***************************************************************************)
(* Concurrent registrations.  signUp awaits User.findOne and then         *)
(* User.create; another request can run between the two.  The unique      *)
(* index on email makes the create of a second document with an email fail *)
(* (E11000), which signUp does not catch.                                  *)
(***************************************************************************)
\* signUp up to its User.create
signUpFind(firstName, lastName, age, email, password, salt) ==
    /\ ~(\/ Falsy(firstName) \/ Falsy(lastName) \/ age = Absent \/ age = Some(0)
         \/ Falsy(email) \/ Falsy(password))
    /\ Value(age) >= MinAge
    /\ findOneByEmail(email) = {}
    /\ Begin(InFlight("signUp", 0,
                      create(Value(firstName), Value(lastName), Value(age), Value(email),
                             bcryptHash(Value(password), salt)),
                      Absent))
    /\ UNCHANGED issued

\* User.create of a signUp in flight, and the rest of the handler
signUpCreate(request) ==
    /\ request \in pending
    /\ request.op = "signUp"
    /\ pending' = pending \ {request}
    /\ UNCHANGED <<clock, issued, sessions, bound, comments>>
    /\ IF ~uniqueEmail(0, request.doc.email)
       THEN /\ last' = Unhandled("signUp", "E11000 duplicate key error")
            /\ UNCHANGED <<users, nextId>>
       ELSE /\ nextId <= bound.users
            /\ users' = Put(nextId, request.doc)
            /\ nextId' = nextId + 1
            /\ last' = [Response("signUp", 201, "") EXCEPT !.userId = Some(nextId)]

InitReg == Init /\ bound.users = MaxUsers

NextReg ==
    \/ \E email \in Emails, password \in {PwAbc, PwXyz}, salt \in Salts :
          signUpFind(Some(<<"A">>), Some(<<"B">>), Some(MinAge + 2), Some(email),
                     Some(password), salt)
    \/ \E request \in pending : signUpCreate(request)
    \/ \E email \in Emails, password \in {PwAbc, PwXyz}, salt \in Salts :
          signUp(Some(<<"A">>), Some(<<"B">>), Some(MinAge + 2), Some(email),
                 Some(password), salt)
    \/ \E email \in Emails : login(Some(email), Some(PwAbc))
    \/ \E j \in sessions, email \in Emails, salt \in Salts :
          putMe(Some(j), Absent, Absent, Absent, Some(email), Absent, salt)
    \/ \E j \in sessions : deleteMeRoute(Some(j))

SpecReg == InitReg /\ [][NextReg]_vars

(***************************************************************************)
(* Sessions over days.  The clock advances by three and a half days, so   *)
(* that session tokens reach and pass their seven days.                   *)
(***************************************************************************)
Days ==
    /\ clock < MaxDays * DayStep
    /\ clock' = clock + DayStep
    /\ last' = Response("tick", 0, "")
    /\ UNCHANGED <<users, nextId, issued, sessions, bound, comments, pending>>

InitGate == Init /\ bound.users = MaxUsers

NextGate ==
    \/ Days
    \/ \E email \in Emails, salt \in Salts :
          signUp(Some(<<"A">>), Some(<<"B">>), Some(MinAge + 2), Some(email),
                 Some(PwAbc), salt)
    \/ \E email \in Emails : login(Some(email), Some(PwAbc))
    \/ \E header \in Headers : getMe(header)
    \/ \E header \in Headers, salt \in Salts :
          putMe(header, Some(<<"A">>), Absent, Absent, Absent, Absent, salt)
    \/ \E header \in Headers : deleteMeRoute(header)
    \/ \E header \in Headers, salt \in Salts :
          putPassword(header, Some(PwAbc), Some(PwXyz), Some(PwXyz), salt)

SpecGate == InitGate /\ [][NextGate]_vars

(***************************************************************************)
(* Properties.                                                             *)
(***************************************************************************)
Entry(token) == issued[CHOOSE i \in 1..Len(issued) : issued[i].token = token]
Rejected(response) ==
    response.status = 400 /\ response.message = "Invalid or expired token"
\* the documents that hold the hash of this raw token
Holders(token) ==
    {id \in DOMAIN users : users[id].passwordResetTokenHash = Some(sha256(token))}
\* a token that a later forgotPassword for the same account has replaced
Superseded(token) ==
    \E i, j \in 1..Len(issued) :
        i < j /\ issued[i].token = token /\ issued[j].userId = issued[i].userId

\* C1: a reset token is single-use: once a resetPassword with a raw token has
\* succeeded, every later resetPassword with that token answers
\* "Invalid or expired token" and leaves every document as it was.
C1_SingleUse ==
    [][\A token \in IssuedTokens, password \in Passwords, salt \in Salts :
        (last'.op = "resetPassword" /\ Entry(token).used
            /\ resetPassword(Some(token), Some(password), Some(password), salt))
        => (Rejected(last') /\ users' = users)]_vars

C1_Witness ==
    /\ last.op = "resetPassword" /\ Rejected(last)
    /\ \E token \in IssuedTokens : last.token = Some(token) /\ Entry(token).used

\* C2: at most one raw token is accepted for an account at any time, and a
\* token that a later forgotPassword for the same account has replaced is
\* answered "Invalid or expired token".
C2_AtMostOneValid ==
    \A id \in DOMAIN users :
        Cardinality({t \in Tokens : id \in findOneByResetToken(sha256(t), clock)}) <= 1

C2_OneTokenPerUser ==
    [][/\ C2_AtMostOneValid'
       /\ \A token \in IssuedTokens, password \in Passwords, salt \in Salts :
            (last'.op = "resetPassword" /\ Superseded(token)
                /\ resetPassword(Some(token), Some(password), Some(password), salt))
            => (Rejected(last') /\ users' = users)]_vars

C2_Witness ==
    /\ last.op = "resetPassword" /\ Rejected(last)
    /\ \E token \in IssuedTokens :
        /\ last.token = Some(token)
        /\ Superseded(token) /\ ~Entry(token).used
        /\ clock < Entry(token).at + 60 * Minute
        /\ Entry(token).userId \in DOMAIN users

\* C3: a token issued at time T and still held by its account is accepted by
\* resetPassword at any time before T + 60 minutes and answered
\* "Invalid or expired token" from T + 60 minutes on, the documents unchanged.
C3_SixtyMinutes ==
    [][\A token \in IssuedTokens, password \in Passwords, salt \in Salts :
        (last'.op = "resetPassword" /\ Holders(token) # {}
            /\ resetPassword(Some(token), Some(password), Some(password), salt))
        => IF clock < Entry(token).at + 60 * Minute
           THEN last'.status = 200 /\ last'.message = "Password updated"
           ELSE Rejected(last') /\ users' = users]_vars

C3_Witness ==
    /\ last.op = "resetPassword" /\ Rejected(last)
    /\ \E token \in IssuedTokens :
        /\ last.token = Some(token)
        /\ Holders(token) # {}
        /\ clock = Entry(token).at + 60 * Minute

\* C4: in every document passwordResetTokenHash and passwordResetTokenExp are
\* both present or both absent, whatever requests ran and however their
\* finds and saves interleaved.
C4_BothOrNeither ==
    \A id \in DOMAIN users :
        users[id].passwordResetTokenHash = Absent <=> users[id].passwordResetTokenExp = Absent

\* a resetPassword is between its find and its save while a forgotPassword
\* that ran meanwhile has replaced the token it loaded
C4_Witness ==
    \E request \in pending :
        /\ request.op = "resetPassword"
        /\ request.id \in DOMAIN users
        /\ users[request.id].passwordResetTokenHash
                \notin {Absent, Some(sha256(Value(request.token)))}
        /\ users[request.id].passwordResetTokenExp # Absent

\* C5: a successful changePassword invalidates the reset token issued for
\* that account: no later resetPassword with it can succeed.
C5_ChangeInvalidatesToken ==
    (last.op = "changePassword" /\ last.status = 200)
    => \A token \in IssuedTokens :
        Entry(token).userId \in last.userId
        => ~ENABLED (/\ resetPassword(Some(token), Some(PwAbc), Some(PwAbc), 1)
                     /\ last'.status = 200)

\* C6: resetPassword with a token and two passwords that differ answers
\* 400 "Passwords do not match" whatever the token is, and changes no document.
C6_MismatchFirst ==
    [][\A token \in Tokens, password \in Passwords, confirmPassword \in Passwords,
         salt \in Salts :
        (/\ last'.op = "resetPassword"
         /\ password # confirmPassword
         /\ resetPassword(Some(token), Some(password), Some(confirmPassword), salt))
        => (/\ last'.status = 400
            /\ last'.message = "Passwords do not match"
            /\ users' = users)]_vars

\* the mismatch was answered to a request whose token is still accepted
C6_Witness ==
    /\ last.op = "resetPassword" /\ last.message = "Passwords do not match"
    /\ \E token \in IssuedTokens :
        /\ last.token = Some(token)
        /\ findOneByResetToken(sha256(token), clock) # {}

\* C7: after a successful resetPassword with password p the account's
\* passwordHash verifies p and no other password and both token fields are
\* absent; and login succeeds exactly with the password the hash verifies,
\* answering 401 "Invalid credentials" otherwise.
C7_ResetSetsPassword ==
    [][/\ \A token \in IssuedTokens, password \in Passwords, salt \in Salts :
            (/\ last'.op = "resetPassword" /\ last'.status = 200
             /\ resetPassword(Some(token), Some(password), Some(password), salt))
            => \A id \in Holders(token) :
                /\ bcryptCompare(password, users'[id].passwordHash)
                /\ \A other \in Passwords \ {password} :
                        ~bcryptCompare(other, users'[id].passwordHash)
                /\ users'[id].passwordResetTokenHash = Absent
                /\ users'[id].passwordResetTokenExp = Absent
       /\ \A id \in DOMAIN users, password \in Passwords :
            (last'.op = "login" /\ login(Some(users[id].email), Some(password)))
            => IF bcryptCompare(password, users[id].passwordHash)
               THEN last'.status = 200 /\ last'.jwt # Absent
               ELSE last' = Response("login", 401, "Invalid credentials")]_vars

\* a reset has just succeeded, and of two passwords login now accepts one and
\* refuses the other
C7_Witness ==
    /\ last.op = "resetPassword" /\ last.status = 200
    /\ \E id \in last.userId :
        /\ id \in DOMAIN users
        /\ users[id].passwordResetTokenHash = Absent
        /\ bcryptCompare(PwXyz, users[id].passwordHash)
        /\ ENABLED (login(Some(users[id].email), Some(PwXyz)) /\ last'.status = 200)
        /\ ENABLED (login(Some(users[id].email), Some(PwAbc)) /\ last'.status = 401)

\* C8 as stated: a passwordHash changes only in signUp, resetPassword and
\* changePassword.
C8_OnlyThreeFlows ==
    [][\A id \in DOMAIN users' :
        (id \notin DOMAIN users \/ users'[id].passwordHash # users[id].passwordHash)
        => last'.op \in {"signUp", "resetPassword", "changePassword"}]_vars

\* C8: a passwordHash is written only by a successful signUp, resetPassword,
\* changePassword, or updateMe with a password, for the account of that
\* request, and after each of them it is the hash of the password the request
\* carried.
C8_PasswordLastSet ==
    [][/\ \A id \in DOMAIN users' :
            (id \notin DOMAIN users \/ users'[id].passwordHash # users[id].passwordHash)
            => /\ last'.op \in {"signUp", "resetPassword", "changePassword", "updateMe"}
               /\ last'.status \in {200, 201}
               /\ last'.userId = Some(id)
       /\ \A body \in SignUpBodies, salt \in Salts :
            (/\ last'.op = "signUp" /\ last'.status = 201
             /\ signUp(body.firstName, body.lastName, body.age, body.email,
                       body.password, salt))
            => \A id \in last'.userId :
                bcryptCompare(Value(body.password), users'[id].passwordHash)
       /\ \A token \in IssuedTokens, password \in Passwords, salt \in Salts :
            (/\ last'.op = "resetPassword" /\ last'.status = 200
             /\ resetPassword(Some(token), Some(password), Some(password), salt))
            => \A id \in last'.userId :
                bcryptCompare(password, users'[id].passwordHash)
       /\ \A j \in sessions, body \in PasswordBodies, salt \in Salts :
            (/\ last'.op = "changePassword" /\ last'.status = 200
             /\ putPassword(Some(j), body.currentPassword, body.newPassword,
                            body.confirmPassword, salt))
            => bcryptCompare(Value(body.newPassword), users'[j.id].passwordHash)
       /\ \A j \in sessions, body \in UpdateBodies, salt \in Salts :
            (/\ last'.op = "updateMe" /\ last'.userId = Some(j.id)
             /\ body.password # Absent
             /\ putMe(Some(j), body.firstName, body.lastName, body.age, body.email,
                      body.password, salt))
            => bcryptCompare(Value(body.password), users'[j.id].passwordHash)]_vars

\* a changePassword has just succeeded and the hash verifies a password other
\* than the one the account registered with
C8_Witness ==
    /\ last.op = "changePassword" /\ last.status = 200
    /\ \E id \in last.userId :
        id \in DOMAIN users /\ ~bcryptCompare(PwAbc, users[id].passwordHash)

\* C9: login answers the same 401 "Invalid credentials", and issues no
\* session, when no document has the email and when one has it and the
\* password does not verify.
C9_SameError ==
    [][\A email \in Emails, password \in Opt(Passwords) :
        (/\ last'.op = "login"
         /\ \A id \in findOneByEmail(Some(email)) :
                \/ password = Absent
                \/ ~bcryptCompare(Value(password), users[id].passwordHash)
         /\ login(Some(email), password))
        => (/\ last' = Response("login", 401, "Invalid credentials")
            /\ sessions' = sessions)]_vars

\* C10: forgotPassword with an email, the mail delivered, answers 200 with
\* the same message whether or not a document has the email.
C10_NeutralPayload ==
    [][\A email \in Emails, token \in Tokens :
        (last'.op = "forgotPassword" /\ forgotPassword(Some(email), token, TRUE))
        => (/\ last'.status = 200
            /\ last'.message = "If the email exists, a reset was sent")]_vars

\* a reset was mailed to an account while another email has no document
C10_Witness ==
    /\ last.op = "forgotPassword" /\ last.mail = "sent" /\ last.status = 200
    /\ \E email \in Emails : findOneByEmail(Some(email)) = {}

\* C11: whatever the mail service does, forgotPassword can answer an email
\* that has a document with exactly the responses it can answer an email that
\* has none.
C11_SameResponses ==
    \A known \in Emails, unknown \in Emails, mailOk \in BOOLEAN,
       status \in {200, 502} :
        (findOneByEmail(Some(known)) # {} /\ findOneByEmail(Some(unknown)) = {})
        => (ENABLED (\E token \in randomBytes :
                        /\ forgotPassword(Some(known), token, mailOk)
                        /\ last'.status = status)
            <=> ENABLED (\E token \in randomBytes :
                        /\ forgotPassword(Some(unknown), token, mailOk)
                        /\ last'.status = status))

\* the raw tokens resetPassword would accept for this account now
Honoured(id) == {t \in Tokens : id \in findOneByResetToken(sha256(t), clock)}

\* C12: when sendMail fails for an account, forgotPassword answers 502
\* "Email service error" and not the neutral message, with the hash and the
\* 60-minute expiry of the new token already on the document; a retry then
\* issues a token that replaces them, and only the retry's token is honoured.
C12_FailedDelivery ==
    [][\A id \in DOMAIN users, token \in Tokens :
        /\ (/\ last'.op = "forgotPassword"
            /\ forgotPassword(Some(users[id].email), token, FALSE))
           => /\ last'.status = 502
              /\ last'.message = "Email service error"
              /\ users'[id].passwordResetTokenHash = Some(sha256(token))
              /\ users'[id].passwordResetTokenExp = Some(clock + 60 * Minute)
        /\ (/\ last.op = "forgotPassword" /\ last.mail = "failed"
            /\ issued # <<>> /\ issued[Len(issued)].userId = id
            /\ last'.op = "forgotPassword"
            /\ \E mailOk \in BOOLEAN : forgotPassword(Some(users[id].email), token, mailOk))
           => Honoured(id)' = {token}]_vars

\* a delivery has just failed, the token of that request is the one on the
\* document, and a retry that is delivered can follow
C12_Witness ==
    /\ last.op = "forgotPassword" /\ last.status = 502 /\ last.mail = "failed"
    /\ issued # <<>>
    /\ LET id == issued[Len(issued)].userId IN
        /\ id \in DOMAIN users
        /\ Honoured(id) = {issued[Len(issued)].token}
        /\ ENABLED (/\ \E token \in randomBytes :
                          forgotPassword(Some(users[id].email), token, TRUE)
                    /\ last'.mail = "sent")

\* C13: a signUp with every field and an adult age, for an email that a
\* document already has, answers 409 "Email already registered", creates no
\* document and leaves every document as it was.
C13_EmailTaken ==
    [][\A body \in SignUpBodies, salt \in Salts :
        (/\ last'.op = "signUp"
         /\ \A f \in DOMAIN body : body[f] # Absent
         /\ Value(body.age) >= 18
         /\ \E id \in DOMAIN users : users[id].email = Value(body.email)
         /\ signUp(body.firstName, body.lastName, body.age, body.email,
                   body.password, salt))
        => (/\ last'.status = 409
            /\ last'.message = "Email already registered"
            /\ users' = users
            /\ nextId' = nextId)]_vars

\* a conflict was answered while the account holds a pending reset token
C13_Witness ==
    /\ last.op = "signUp" /\ last.status = 409
    /\ \E id \in DOMAIN users : users[id].passwordResetTokenHash # Absent

\* C14: no two documents have the same email, whatever signUp, updateMe and
\* deleteMe requests ran and however the finds and creates of concurrent
\* signUps interleaved.
C14_OneRecordPerEmail ==
    \A i \in DOMAIN users, j \in DOMAIN users : users[i].email = users[j].email => i = j

\* the create of a signUp has been refused by the index: between its find
\* and its create another request took the email
C14_Witness ==
    /\ last.op = "signUp" /\ last.status = 0
    /\ \E id \in DOMAIN users : TRUE

\* C15: signUp answers with the first check that fails, in the order missing
\* fields, age under 18, password policy, email taken, and a refused signUp
\* creates and changes no document.
C15_CheckOrder ==
    [][\A body \in SignUpBodies, salt \in Salts :
        (/\ last'.op = "signUp"
         /\ signUp(body.firstName, body.lastName, body.age, body.email,
                   body.password, salt))
        => /\ IF \E f \in DOMAIN body : body[f] = Absent
              THEN last'.status = 400 /\ last'.message = "Missing fields"
              ELSE IF Value(body.age) < 18
              THEN /\ last'.status = 400
                   /\ last'.message = "You must be at least 18 years old to register."
              ELSE IF validatePasswordStrength(body.password) # ""
              THEN /\ last'.status = 400
                   /\ last'.message = validatePasswordStrength(body.password)
              ELSE IF \E id \in DOMAIN users : users[id].email = Value(body.email)
              THEN last'.status = 409 /\ last'.message = "Email already registered"
              ELSE last'.status = 201
           /\ last'.status # 201 => users' = users]_vars

\* C16: signUp and resetPassword refuse every password that
\* validatePasswordStrength rejects, creating no document and changing no
\* passwordHash.
C16_PolicyEnforced ==
    [][/\ \A body \in SignUpBodies, salt \in Salts :
            (/\ last'.op = "signUp"
             /\ validatePasswordStrength(body.password) # ""
             /\ signUp(body.firstName, body.lastName, body.age, body.email,
                       body.password, salt))
            => (last'.status \in {400, 409} /\ users' = users)
       /\ \A body \in ResetBodies, salt \in Salts :
            (/\ last'.op = "resetPassword"
             /\ validatePasswordStrength(body.password) # ""
             /\ resetPassword(body.token, body.password, body.confirmPassword, salt))
            => (last'.status = 400 /\ users' = users)]_vars

\* C17: login with the email of a document and the password whose hash the
\* document stores answers 200 with a session token for that account, also
\* when validatePasswordStrength rejects that password.
C17_LoginIgnoresPolicy ==
    [][\A id \in DOMAIN users, password \in Passwords :
        (/\ last'.op = "login"
         /\ users[id].passwordHash = bcryptHash(password, users[id].passwordHash.salt)
         /\ login(Some(users[id].email), Some(password)))
        => (/\ last'.status = 200
            /\ last'.userId = Some(id)
            /\ \E jwt \in last'.jwt : jwt.id = id /\ jwtVerify(jwt, Secret, clock))]_vars

\* a login has just succeeded for an account whose password the policy rejects
C17_Witness ==
    /\ last.op = "login" /\ last.status = 200 /\ last.jwt # Absent
    /\ \E id \in last.userId, password \in Passwords :
        /\ id \in DOMAIN users
        /\ users[id].passwordHash = bcryptHash(password, users[id].passwordHash.salt)
        /\ validatePasswordStrength(Some(password)) # ""

\* a header carrying a token that login issued less than seven days ago
Admitted(header) ==
    \E jwt \in header : jwt \in sessions /\ clock < jwt.iat + 7 * 24 * 60 * Minute

\* the documents of every account but id are as they were
OthersUntouched(id) ==
    /\ DOMAIN users' \ {id} = DOMAIN users \ {id}
    /\ \A other \in DOMAIN users \ {id} : users'[other] = users[other]

\* C18: a route behind requireAuth runs its handler only for a header whose
\* token login issued less than seven days ago, and then for the account the
\* token names; for a missing header, a token not signed with the secret or
\* an expired token it answers 401, runs no handler and attaches no identity.
C18_FailsClosed ==
    [][\A header \in Headers, salt \in Salts :
        (/\ last'.op \in {"me", "updateMe", "deleteMe", "changePassword"}
         /\ \/ getMe(header)
            \/ putMe(header, Some(<<"A">>), Absent, Absent, Absent, Absent, salt)
            \/ deleteMeRoute(header)
            \/ putPassword(header, Some(PwAbc), Some(PwXyz), Some(PwXyz), salt))
        => IF Admitted(header)
           THEN /\ last'.status # 401
                /\ last'.userId \subseteq {Value(header).id}
                /\ OthersUntouched(Value(header).id)
           ELSE /\ last'.status = 401
                /\ last'.userId = Absent
                /\ users' = users]_vars

\* a token that login issued has been refused, seven days or more after
C18_Witness ==
    /\ last.status = 401 /\ last.message = "Invalid token"
    /\ \E jwt \in last.jwt :
        /\ jwt \in sessions
        /\ jwt.id \in DOMAIN users
        /\ clock >= jwt.iat + 7 * 24 * 60 * Minute

\* C19: once an account is deleted, a request carrying the token that login
\* issued to it earlier is answered 401 by requireAuth, whatever the route.
C19_DeletedSessionRefused ==
    [][\A header \in Opt(sessions), salt \in Salts :
        (/\ last'.op \in {"me", "updateMe", "deleteMe", "changePassword"}
         /\ header # Absent
         /\ Value(header).id \notin DOMAIN users
         /\ \/ getMe(header)
            \/ putMe(header, Some(<<"A">>), Absent, Absent, Absent, Absent, salt)
            \/ deleteMeRoute(header)
            \/ putPassword(header, Some(PwAbc), Some(PwXyz), Some(PwXyz), salt))
        => last'.status = 401]_vars

(***************************************************************************)
(* validatePasswordStrength as a function of its argument: a caller hands *)
(* it a candidate, which is undefined or a string of at most MaxLen       *)
(* characters (String.length counts UTF-16 code units; every character    *)
(* here is one unit), and reads what it returns.                          *)
(***************************************************************************)
Alphabet == {"A", "a", "1", "!"}
Strings == UNION {[1..n -> Alphabet] : n \in 0..MaxLen}
toUpperCase(s) ==
    [i \in 1..Len(s) |->
        IF \E k \in 1..Len(LowerCase) : LowerCase[k] = s[i]
        THEN UpperCase[CHOOSE k \in 1..Len(LowerCase) : LowerCase[k] = s[i]]
        ELSE s[i]]
\* a password of the clients with a line terminator somewhere in it
Multiline ==
    {SubSeq(password, 1, k) \o <<terminator>> \o SubSeq(password, k + 1, Len(password)) :
        password \in {PwAbc}, k \in {0, 4, Len(PwAbc)}, terminator \in LineTerminators}
Candidates ==
    Opt(Strings \cup weakPasswords \cup {toUpperCase(weak) : weak \in weakPasswords}
        \cup Multiline \cup {NotAString})

validatePasswordStrengthCall ==
    \E request \in pending :
        /\ last' = Response("validatePasswordStrength", 0,
                            validatePasswordStrength(request.password))
        /\ UNCHANGED <<users, nextId, clock, issued, sessions, bound, comments, pending>>

InitPolicy ==
    /\ users = NoUsers
    /\ nextId = 1
    /\ clock = 0
    /\ issued = <<>>
    /\ sessions = {}
    /\ last = Response("start", 0, "")
    /\ bound = [users |-> 0, tokens |-> 0, ticks |-> 0, sessions |-> 0]
    /\ \E password \in Candidates : pending = {[password |-> password]}
    /\ comments = <<>>

NextPolicy == validatePasswordStrengthCall

SpecPolicy == InitPolicy /\ [][NextPolicy]_vars

\* the strings whose verdict is held in last
Evaluated ==
    IF last.op = "validatePasswordStrength"
    THEN {Value(request.password) :
            request \in {r \in pending : r.password \notin {Absent, Some(NotAString)}}}
    ELSE {}

\* C20 as stated: every string of fewer than 8 characters gets the
\* too-short message.
C20_ShorterThanEight ==
    \A password \in Evaluated :
        Len(password) < 8 => last.message = MsgTooShort

\* C20: every non-empty string of fewer than 8 characters gets the too-short
\* message, whatever its characters; the empty string gets "Password is
\* required." instead.
C20_TooShort ==
    \A password \in Evaluated :
        /\ 0 < Len(password) /\ Len(password) < 8 => last.message = MsgTooShort
        /\ Len(password) = 0 => last.message = MsgRequired

\* a string of seven characters with an uppercase letter, a digit and a
\* symbol has been found too short
C20_Witness ==
    \E password \in Evaluated :
        /\ Len(password) = 7
        /\ strongRegex(password)
        /\ last.message = MsgTooShort

\* the verdict the four rules give, taken in their order
RuleVerdict(candidate) ==
    IF candidate \in {Absent, Some(<<>>), Some(NotAString)} THEN MsgRequired
    ELSE LET password == Value(candidate)
             has(class) == \E i \in 1..Len(password) : password[i] \in class
         IN  IF Len(password) < 8 THEN MsgTooShort
             ELSE IF \E weak \in weakPasswords : toUpperCase(weak) = toUpperCase(password)
             THEN MsgTooCommon
             ELSE IF ~(/\ has({UpperCase[k] : k \in 1..Len(UpperCase)})
                       /\ has(Digits)
                       /\ has(Symbols))
             THEN MsgTooWeak
             ELSE ""

\* C21: validatePasswordStrength returns the message of the first rule the
\* candidate breaks among Required, TooShort, TooCommon (case-insensitive
\* member of the list) and TooWeak (no uppercase letter, digit or symbol),
\* or null when it breaks none, and changes nothing else.
C21_RuleOrder ==
    [][last'.op = "validatePasswordStrength" /\ validatePasswordStrengthCall
        => /\ \A request \in pending : last'.message = RuleVerdict(request.password)
           /\ UNCHANGED <<users, nextId, clock, issued, sessions, bound, comments, pending>>]_vars

(***************************************************************************)
(* The store out of reach.  A Mongoose call whose connection is down      *)
(* rejects; no handler of auth.controller.ts wraps its store calls in     *)
(* try/catch and index.ts installs no error middleware, so the rejection  *)
(* leaves the handler.  What the client then gets depends on the Express  *)
(* of the build: version 4 never learns of the rejection and writes       *)
(* nothing, version 5 passes it to its default error handler, which       *)
(* answers 500.  Whichever store call of the handler fails, nothing has   *)
(* been written.                                                          *)
(***************************************************************************)
StoreFault(op) ==
    { Unhandled(op, "MongoNetworkError"),
      Response(op, 500, "Internal Server Error") }

Faulted(op) ==
    /\ last' \in StoreFault(op)
    /\ UNCHANGED <<users, nextId, clock, issued, sessions, bound, comments, pending>>

\* signUp when User.findOne or User.create rejects
signUpStoreFault(firstName, lastName, age, email, password) ==
    /\ ~(\/ Falsy(firstName) \/ Falsy(lastName) \/ age = Absent \/ age = Some(0)
         \/ Falsy(email) \/ Falsy(password))
    /\ Value(age) >= MinAge
    /\ Faulted("signUp")

\* login when User.findOne rejects
loginStoreFault(email, password) == Faulted("login")

\* forgotPassword when User.findOne or user.save() rejects
forgotPasswordStoreFault(email) ==
    /\ ~Falsy(email)
    /\ Faulted("forgotPassword")

\* resetPassword when User.findOne or user.save() rejects
resetPasswordStoreFault(token, password, confirmPassword) ==
    /\ resetPasswordBody(token, password, confirmPassword) = ""
    /\ Faulted("resetPassword")

InitStore == Init /\ bound.users = MaxUsers

NextStore ==
    \/ \E body \in SignUpBodies, salt \in Salts :
          signUp(body.firstName, body.lastName, body.age, body.email, body.password, salt)
    \/ \E email \in Opt(Emails) \ {Absent}, password \in Opt(Passwords) :
          login(email, password)
    \/ \E email \in Opt(Emails), token \in randomBytes, mailOk \in BOOLEAN :
          forgotPassword(email, token, mailOk)
    \/ \E body \in ResetBodies, salt \in Salts :
          resetPassword(body.token, body.password, body.confirmPassword, salt)
    \/ \E body \in SignUpBodies :
          signUpStoreFault(body.firstName, body.lastName, body.age, body.email,
                           body.password)
    \/ \E email \in Opt(Emails) \ {Absent}, password \in Opt(Passwords) :
          loginStoreFault(email, password)
    \/ \E email \in Opt(Emails) : forgotPasswordStoreFault(email)
    \/ \E body \in ResetBodies :
          resetPasswordStoreFault(body.token, body.password, body.confirmPassword)

SpecStore == InitStore /\ [][NextStore]_vars

\* C22: when a store call of signUp, login, forgotPassword or resetPassword
\* fails, the caller receives a response, and that response is a fault
\* distinct from the validation and authentication errors.
C22_StoreUnavailable ==
    [][\A op \in {"signUp", "login", "forgotPassword", "resetPassword"} :
        last'.op = op /\ Faulted(op)
            => last'.status \notin {0, 400, 401, 409}]_vars

\* the documents hold no token, or the hash and the expiry of one issuance
\* for that account
OneIssuance ==
    \A id \in DOMAIN users :
        \/ /\ users[id].passwordResetTokenHash = Absent
           /\ users[id].passwordResetTokenExp = Absent
        \/ \E i \in 1..Len(issued) :
            /\ issued[i].userId = id
            /\ users[id].passwordResetTokenHash = Some(sha256(issued[i].token))
            /\ users[id].passwordResetTokenExp = Some(issued[i].at + 60 * Minute)

\* C23: however the finds and saves of forgotPassword requests for one
\* account interleave, the document holds the hash and the expiry of one and
\* the same issuance, that of the request that saved last, and resetPassword
\* accepts no token but that one.
C23_LaterWrite ==
    [][/\ OneIssuance'
       /\ \A request \in pending :
            (/\ last'.op = "forgotPassword"
             /\ request.op = "forgotPassword"
             /\ request.id \in DOMAIN users
             /\ \E mailOk \in BOOLEAN : save(request, mailOk))
            => LET token == Value(request.token) IN
               /\ users'[request.id].passwordResetTokenHash = Some(sha256(token))
               /\ users'[request.id].passwordResetTokenExp
                    = Some(Entry(token).at + 60 * Minute)
               /\ Honoured(request.id)' \subseteq {token}]_vars

\* two forgotPassword requests for one account have both saved, the one that
\* found the document first saving last: the document holds its hash and its
\* expiry, and its token is the one resetPassword accepts
C23_Witness ==
    /\ last.op = "forgotPassword"
    /\ \A request \in pending : request.op # "forgotPassword"
    /\ \E i, j \in 1..Len(issued) :
        /\ i < j
        /\ issued[i].userId = issued[j].userId
        /\ issued[i].at < issued[j].at
        /\ issued[i].userId \in DOMAIN users
        /\ Honoured(issued[i].userId) = {issued[i].token}
        /\ users[issued[i].userId].passwordResetTokenExp
                = Some(issued[i].at + 60 * Minute)

(***************************************************************************)
(* A store with a document of the earlier schema: resetToken holds a reset *)
(* token in plain text and resetTokenExp its expiry (models/User.ts keeps  *)
(* both paths for such documents).                                         *)
(***************************************************************************)
LegacyToken == <<0>>
LegacyUser ==
    [create(<<"A">>, <<"B">>, MinAge + 2, <<"a@x.com">>, bcryptHash(PwAbc, 1))
        EXCEPT !.resetToken = Some(LegacyToken), !.resetTokenExp = Some(TokenTTL)]

InitLegacy ==
    /\ users = [id \in {1} |-> LegacyUser]
    /\ nextId = 2
    /\ clock = 0
    /\ issued = <<>>
    /\ sessions = {}
    /\ last = Response("start", 0, "")
    /\ bound = [users |-> MaxUsers, tokens |-> MaxTokens, ticks |-> MaxTicks,
                sessions |-> MaxSessions]
    /\ pending = {}
    /\ comments = <<>>

NextLegacy ==
    \/ Tick
    \/ \E salt \in Salts :
          signUp(Some(<<"A">>), Some(<<"B">>), Some(MinAge + 2), Some(<<"b@x.com">>),
                 Some(PwAbc), salt)
    \/ \E email \in Emails : login(Some(email), Some(PwAbc))
    \/ \E email \in Opt(Emails), token \in randomBytes, mailOk \in BOOLEAN :
          forgotPassword(email, token, mailOk)
    \/ \E body \in ResetBodies, salt \in Salts :
          resetPassword(body.token, body.password, body.confirmPassword, salt)
    \/ \E j \in sessions, salt \in Salts :
          putPassword(Some(j), Some(PwAbc), Some(PwXyz), Some(PwXyz), salt)

SpecLegacy == InitLegacy /\ [][NextLegacy]_vars

\* no reset-token path of a document holds a raw token that was issued:
\* passwordResetTokenHash is absent or the SHA-256 of one
OnlyHashes ==
    \A id \in DOMAIN users :
        /\ users[id].passwordResetTokenHash
                \in {Absent} \cup {Some(sha256(token)) : token \in IssuedTokens}
        /\ \A token \in IssuedTokens : users[id].resetToken # Some(token)

\* C24: the raw token forgotPassword generates is never stored: the
\* reset-token paths of a document hold only the SHA-256 of an issued token,
\* and resetToken and resetTokenExp are absent from the document after every
\* forgotPassword that issues a token for it and after every resetPassword
\* that succeeds on it.
C24_NeverPersisted ==
    [][/\ OnlyHashes'
       /\ \A id \in DOMAIN users :
            (\/ /\ last'.op = "forgotPassword"
                /\ Len(issued') > Len(issued)
                /\ issued'[Len(issued')].userId = id
             \/ /\ last'.op = "resetPassword"
                /\ last'.status = 200
                /\ last'.userId = Some(id))
            => /\ users'[id].resetToken = Absent
               /\ users'[id].resetTokenExp = Absent
               /\ \A other \in DOMAIN users \ {id} :
                    /\ users'[other].resetToken = users[other].resetToken
                    /\ users'[other].resetTokenExp = users[other].resetTokenExp]_vars

\* the document that held a token in plain text has been through
\* forgotPassword: it holds the hash of the new token and no plain text
C24_Witness ==
    /\ last.op = "forgotPassword" /\ last.mail = "sent"
    /\ 1 \in DOMAIN users
    /\ users[1].resetToken = Absent /\ users[1].resetTokenExp = Absent
    /\ issued # <<>>
    /\ users[1].passwordResetTokenHash = Some(sha256(issued[Len(issued)].token))

\* C25: changePassword sets passwordHash only when the three fields are
\* present, newPassword equals confirmPassword and passes
\* validatePasswordStrength, the account exists and currentPassword matches
\* the stored hash; otherwise it answers 400, or 404 when the account is
\* gone, and changes no document.
C25_ChangeOnlyWhenVerified ==
    [][\A j \in sessions, body \in PasswordBodies, salt \in Salts :
        (/\ last'.op = "changePassword"
         /\ putPassword(Some(j), body.currentPassword, body.newPassword,
                        body.confirmPassword, salt))
        => IF /\ body.currentPassword # Absent /\ body.newPassword # Absent
              /\ body.confirmPassword # Absent
              /\ body.newPassword = body.confirmPassword
              /\ validatePasswordStrength(body.newPassword) = ""
              /\ j.id \in DOMAIN users
              /\ users[j.id].passwordHash.bcrypt = Value(body.currentPassword)
           THEN /\ last'.status = 200
                /\ users'[j.id].passwordHash.bcrypt = Value(body.newPassword)
           ELSE /\ last'.status \in {400, 404}
                /\ last'.status = 404 => j.id \notin DOMAIN users
                /\ users' = users]_vars

(***************************************************************************)
(* Favorites (routes/favorites.ts, behind requireAuth).  addFavorite and   *)
(* removeFavorite load the document, change the favorites array of the     *)
(* loaded copy and call user.save(); other requests run between the load   *)
(* and the save.  Mongoose saves a push as an atomic $push that increments *)
(* __v without testing it; it saves an assigned array as a $set that is    *)
(* applied only while __v is what was loaded (VersionError otherwise), and *)
(* sends nothing when the assigned array equals the loaded one.  Both      *)
(* handlers catch every error and answer 500.                              *)
(***************************************************************************)
Videos == {"v1", "v2"}

some(favorites, id) == \E i \in 1..Len(favorites) : favorites[i].id = id
filter(favorites, id) == SelectSeq(favorites, LAMBDA fav : fav.id # id)

\* addFavorite up to its user.save()
addFavoriteFind(header, id) ==
    \/ Unauthorized("addFavorite", header)
    \/ /\ requireAuth(header) = ""
       /\ UNCHANGED issued
       /\ LET userId == Value(header).id IN
          IF userId \notin DOMAIN users
          THEN /\ last' = Response("addFavorite", 404, "User not found")
               /\ UNCHANGED <<users, nextId, clock, sessions, bound, comments, pending>>
          ELSE IF some(users[userId].favorites, id)
          THEN /\ last' = Response("addFavorite", 400, "Video already in favorites")
               /\ UNCHANGED <<users, nextId, clock, sessions, bound, comments, pending>>
          ELSE /\ users[userId].__v < MaxVersion
               /\ Begin(InFlight("addFavorite", userId, users[userId], Some(id)))

\* removeFavorite up to its user.save()
removeFavoriteFind(header, id) ==
    \/ Unauthorized("removeFavorite", header)
    \/ /\ requireAuth(header) = ""
       /\ UNCHANGED issued
       /\ LET userId == Value(header).id IN
          IF userId \notin DOMAIN users
          THEN /\ last' = Response("removeFavorite", 404, "User not found")
               /\ UNCHANGED <<users, nextId, clock, sessions, bound, comments, pending>>
          ELSE /\ users[userId].__v < MaxVersion
               /\ Begin(InFlight("removeFavorite", userId, users[userId], Some(id)))

\* user.save() of addFavorite or removeFavorite, and the rest of the handler
saveFavorites(request) ==
    /\ request \in pending
    /\ request.op \in {"addFavorite", "removeFavorite"}
    /\ pending' = pending \ {request}
    /\ UNCHANGED <<nextId, clock, issued, sessions, bound, comments>>
    /\ LET id == Value(request.token)
           unmodified == /\ request.op = "removeFavorite"
                         /\ filter(request.doc.favorites, id) = request.doc.favorites
           done == [Response(request.op, 200, "") EXCEPT !.userId = Some(request.id)]
           failed == Response(request.op, 500, "Internal server error")
       IN  IF unmodified
           THEN last' = done /\ UNCHANGED users
           ELSE IF request.id \notin DOMAIN users
           THEN last' = failed /\ UNCHANGED users
           ELSE IF request.op = "addFavorite"
           THEN /\ users' = Put(request.id,
                    [users[request.id] EXCEPT
                        !.favorites = Append(@, [id |-> id, addedAt |-> clock]),
                        !.__v = @ + 1])
                /\ last' = done
           ELSE IF users[request.id].__v # request.doc.__v
           THEN last' = failed /\ UNCHANGED users
           ELSE /\ users' = Put(request.id,
                    [users[request.id] EXCEPT
                        !.favorites = filter(request.doc.favorites, id),
                        !.__v = @ + 1])
                /\ last' = done

InitFavorites == Init /\ bound.users = MaxUsers

NextFavorites ==
    \/ \E salt \in Salts :
          signUp(Some(<<"A">>), Some(<<"B">>), Some(MinAge + 2), Some(<<"a@x.com">>),
                 Some(PwAbc), salt)
    \/ login(Some(<<"a@x.com">>), Some(PwAbc))
    \/ \E header \in Headers, id \in Videos : addFavoriteFind(header, id)
    \/ \E header \in Headers, id \in Videos : removeFavoriteFind(header, id)
    \/ \E request \in pending : saveFavorites(request)
    \/ \E j \in sessions : deleteMeRoute(Some(j))

SpecFavorites == InitFavorites /\ [][NextFavorites]_vars

\* C26: an addFavorite for a video the list already holds answers 400 and
\* changes nothing, and however addFavorite and removeFavorite requests
\* interleave, no list of favorites holds a video twice.
C26_NoDuplicateFavorite ==
    [][/\ \A header \in Headers, id \in Videos :
            (/\ last'.op = "addFavorite"
             /\ requireAuth(header) = ""
             /\ Value(header).id \in DOMAIN users
             /\ some(users[Value(header).id].favorites, id)
             /\ addFavoriteFind(header, id))
            => last'.status = 400 /\ users' = users /\ pending' = pending
       /\ \A userId \in DOMAIN users' :
            \A i, k \in 1..Len(users'[userId].favorites) :
                users'[userId].favorites[i].id = users'[userId].favorites[k].id => i = k]_vars

(***************************************************************************)
(* Comments (controllers/comment.controller.ts, behind requireAuth in      *)
(* routes/pexels.ts).  A comment id is the position of the document in     *)
(* comments; every handler catches what it throws and answers 500.         *)
(***************************************************************************)
Contents == {"", "first", "edited"}
CommentIds == 1..MaxComments

\* Comment.findById(id)
findCommentById(id) == IF id \in 1..Len(comments) THEN comments[id] ELSE Absent

\* as NotAllowed, letting every authenticated user through
NotAllowedNobody(comment, userId) == FALSE

\* comment.user.toString() !== req.userId
NotAllowed(comment, userId) == comment.user # userId

internalServerError(op) == Response(op, 500, "Internal server error")

addComment(header, videoId, content) ==
    \/ Unauthorized("addComment", header)
    \/ /\ requireAuth(header) = ""
       /\ UNCHANGED <<users, nextId, clock, issued, sessions, bound, pending>>
       /\ IF content = Absent
          THEN last' = internalServerError("addComment") /\ UNCHANGED comments
          ELSE IF Value(content) = ""
          THEN /\ last' = Response("addComment", 400, "Empty comment")
               /\ UNCHANGED comments
          ELSE /\ Len(comments) < MaxComments
               /\ comments' = Append(comments,
                    Some([user |-> Value(header).id, videoId |-> videoId,
                          content |-> Value(content)]))
               /\ last' = [Response("addComment", 201, "")
                              EXCEPT !.userId = Some(Value(header).id)]

updateComment(header, id, content) ==
    \/ Unauthorized("updateComment", header)
    \/ /\ requireAuth(header) = ""
       /\ UNCHANGED <<users, nextId, clock, issued, sessions, bound, pending>>
       /\ IF findCommentById(id) = Absent
          THEN /\ last' = Response("updateComment", 404, "Comment not found")
               /\ UNCHANGED comments
          ELSE IF NotAllowed(Value(findCommentById(id)), Value(header).id)
          THEN /\ last' = Response("updateComment", 403, "Not allowed")
               /\ UNCHANGED comments
          ELSE IF content \in {Absent, Some("")}
          THEN last' = internalServerError("updateComment") /\ UNCHANGED comments
          ELSE /\ comments' = [comments EXCEPT
                    ![id] = Some([Value(@) EXCEPT !.content = Value(content)])]
               /\ last' = [Response("updateComment", 200, "")
                              EXCEPT !.userId = Some(Value(header).id)]

deleteComment(header, id) ==
    \/ Unauthorized("deleteComment", header)
    \/ /\ requireAuth(header) = ""
       /\ UNCHANGED <<users, nextId, clock, issued, sessions, bound, pending>>
       /\ IF findCommentById(id) = Absent
          THEN /\ last' = Response("deleteComment", 404, "Comment not found")
               /\ UNCHANGED comments
          ELSE IF NotAllowed(Value(findCommentById(id)), Value(header).id)
          THEN /\ last' = Response("deleteComment", 403, "Not allowed")
               /\ UNCHANGED comments
          ELSE /\ comments' = [comments EXCEPT ![id] = Absent]
               /\ last' = Response("deleteComment", 200, "Comment deleted")

InitComments ==
    /\ users = NoUsers
    /\ nextId = 1
    /\ clock = 0
    /\ issued = <<>>
    /\ sessions = {}
    /\ last = Response("start", 0, "")
    /\ bound = [users |-> MaxUsers, tokens |-> 0, ticks |-> 0, sessions |-> MaxUsers]
    /\ pending = {}
    /\ comments = <<>>

NextComments ==
    \/ \E email \in Emails, salt \in Salts :
          signUp(Some(<<"A">>), Some(<<"B">>), Some(MinAge + 2), Some(email),
                 Some(PwAbc), salt)
    \/ \E email \in Emails : login(Some(email), Some(PwAbc))
    \/ \E header \in Headers, content \in Opt(Contents \ {"edited"}) :
          addComment(header, "v1", content)
    \/ \E header \in Headers, id \in CommentIds, content \in Opt(Contents \ {"first"}) :
          updateComment(header, id, content)
    \/ \E header \in Headers, id \in CommentIds : deleteComment(header, id)

SpecComments == InitComments /\ [][NextComments]_vars

C28_OneResetPerToken ==
    [][\A request \in pending, mailOk \in BOOLEAN :
        (/\ last'.op = "resetPassword"
         /\ request.op = "resetPassword"
         /\ Entry(Value(request.token)).used
         /\ save(request, mailOk))
        => Rejected(last') /\ users' = users]_vars

\* C29: of two signUp requests in flight with the same email one creates the
\* document and answers 201, and the other, creating after it, answers 409
\* "Email already registered" and creates nothing.
C29_SecondGetsConflict ==
    [][\A request \in pending :
        (/\ last'.op = "signUp"
         /\ request.op = "signUp"
         /\ signUpCreate(request))
        => IF \E id \in DOMAIN users : users[id].email = request.doc.email
           THEN /\ last'.status = 409
                /\ last'.message = "Email already registered"
                /\ users' = users
           ELSE /\ last'.status = 201
                /\ last'.userId = Some(nextId)
                /\ users'[nextId].email = request.doc.email]_vars

\* the fields of a document that a reset may not touch
Profile(doc) ==
    [firstName |-> doc.firstName, lastName |-> doc.lastName, age |-> doc.age,
     email |-> doc.email, favorites |-> doc.favorites]

\* C30: a resetPassword that answers 200 for a token issued to account A
\* names A, changes of A's document only passwordHash and the token fields,
\* and leaves every other account as it was: its document, and with it the
\* tokens it honours.
C30_BoundToItsUser ==
    [][(last'.op = "resetPassword" /\ last'.status = 200 /\ users' # users)
        => \E token \in last'.token \cap IssuedTokens :
            LET A == Entry(token).userId IN
            /\ last'.userId = Some(A)
            /\ A \in DOMAIN users /\ A \in DOMAIN users'
            /\ Profile(users'[A]) = Profile(users[A])
            /\ users'[A].passwordResetTokenHash = Absent
            /\ OthersUntouched(A)
            /\ \A other \in DOMAIN users \ {A} : Honoured(other)' = Honoured(other)]_vars

\* a reset has succeeded while another account holds a token that is honoured
C30_Witness ==
    /\ last.op = "resetPassword" /\ last.status = 200
    /\ \E id \in last.userId, other \in DOMAIN users :
        /\ other # id
        /\ Honoured(other) # {}
        /\ id \in DOMAIN users /\ users[id].passwordResetTokenHash = Absent
====
